---- MODULE Spec2Model ----
(***************************************************************************)
(* GBGasStorage (gas_gb_storage.py): fetch two metric tables, clean them,  *)
(* split them by storage category and build the three-panel figure.        *)
(*                                                                         *)
(* A Data Item label "<Metric>, <Facility>, <Category>" is the sequence of *)
(* its comma-separated parts; str.contains(key) is membership of key among *)
(* the parts (no key holds a comma).  A table (DataFrame) is a record of   *)
(* its column names and its rows in order.  A cell of "Applicable For" is  *)
(* either text (kind "str", the day/month/year fields as written) or a    *)
(* timestamp (kind "ts").  Quantities scaled by 10**-9 are rationals       *)
(* [num, den]; opacities are in thousandths.                               *)
(***************************************************************************)
EXTENDS Integers, Sequences, FiniteSets, TLC

VARIABLES
    pc,            \* position of the constructor / of the harness
    response,      \* the tables parsed from the response bodies (get_data's ng_data)
    ng_data,       \* self.ng_data: metric -> table
    storage_data,  \* self.storage_data: category -> [df, row, col, capacity, total]
    fig,           \* self.fig: the sequence of traces, or NoFig
    requests,      \* metric -> number of HTTP GETs issued for it
    error          \* the exception that left the constructor, or "none"

vars == <<pc, response, ng_data, storage_data, fig, requests, error>>

\* Rows a response table may hold at most.
MaxRows == 2

----------------------------------------------------------------------------
\* Vocabulary

OpeningStock == "Opening Stock"
AvailableCapacity == "Available Capacity"
LongRange == "Long Range Storage"
MediumRange == "Medium Range Storage"
LNG == "LNG Importation"

\* ng_data's keys in insertion order (lines 59-68).
MetricOrder == <<OpeningStock, AvailableCapacity>>
Metrics == {OpeningStock, AvailableCapacity}

\* storage_data's keys in insertion order (lines 111-115).
CategoryOrder == <<LongRange, MediumRange, LNG>>
Categories == {LongRange, MediumRange, LNG}

\* The facilities of mapping_dict with their category.
FacilityCategory ==
    [f \in {"Aldbrough", "Hatfield Moor", "Hill Top", "Holehouse Farm", "Holford",
            "Humbly Grove", "Hornsea", "Stublach", "Dragon", "Isle Of Grain",
            "South Hook", "Rough"} |->
        CASE f \in {"Dragon", "Isle Of Grain", "South Hook"} -> LNG
          [] f = "Rough" -> LongRange
          [] OTHER -> MediumRange]

\* self.mapping_dict: full label -> facility name (a one-part label).
mapping_dict ==
    [l \in {<<m, f, FacilityCategory[f]>> : m \in Metrics, f \in DOMAIN FacilityCategory}
        |-> <<l[2]>>]

\* The value Series.map leaves for a label that is no key of the dict.
NaN == <<>>

\* The columns of the CSV the API sends.
RawColumns == {"Data Item", "Applicable For", "Applicable At", "Value",
               "Generated Time", "Quality Indicator"}

DroppedColumns == {"Generated Time", "Quality Indicator", "Applicable At"}

NoFig == <<[type |-> "none"]>>
NoTable == [cols |-> {}, rows |-> <<>>]

----------------------------------------------------------------------------
\* Dates

\* The number a date field's digits denote.
FieldValue ==
    [s \in {"01", "1", "02", "2", "2024"} |->
        CASE s \in {"01", "1"} -> 1
          [] s \in {"02", "2"} -> 2
          [] OTHER -> 2024]

Text(dd, mm, yyyy) == [kind |-> "str", fields |-> <<dd, mm, yyyy>>,
                       day |-> 0, month |-> 0, year |-> 0]

Timestamp(d, m, y) == [kind |-> "ts", fields |-> <<>>, day |-> d, month |-> m, year |-> y]

\* pd.to_datetime(cell, dayfirst=True): the first field is the day; a
\* timestamp is left as it is.
to_datetime(cell) ==
    IF cell.kind = "ts" THEN cell
    ELSE Timestamp(FieldValue[cell.fields[1]], FieldValue[cell.fields[2]],
                   FieldValue[cell.fields[3]])

\* Chronological order of timestamps.
Before(a, b) ==
    \/ a.year < b.year
    \/ a.year = b.year /\ a.month < b.month
    \/ a.year = b.year /\ a.month = b.month /\ a.day < b.day

----------------------------------------------------------------------------
\* Sequence helpers

SeqsUpTo(S, n) == UNION {[1..k -> S] : k \in 0..n}

RECURSIVE SumSeq(_)
SumSeq(s) == IF s = <<>> THEN 0 ELSE Head(s) + SumSeq(Tail(s))

----------------------------------------------------------------------------
\* Cleaner

Row(item, date, value) == [item |-> item, date |-> date, value |-> value]

DedupKey(r) == <<r.item, r.date>>

\* Faulty variant: keep="last".
DropDuplicatesKeepLast(rows) ==
    LET keep == {i \in DOMAIN rows :
                    \A j \in DOMAIN rows : j > i => DedupKey(rows[j]) # DedupKey(rows[i])}
        RECURSIVE Pick(_)
        Pick(i) == IF i > Len(rows) THEN <<>>
                   ELSE (IF i \in keep THEN <<rows[i]>> ELSE <<>>) \o Pick(i + 1)
    IN Pick(1)

\* DataFrame.drop_duplicates(subset=["Data Item", "Applicable For"], keep="first")
drop_duplicates(rows) ==
    LET keep == {i \in DOMAIN rows :
                    \A j \in DOMAIN rows : j < i => DedupKey(rows[j]) # DedupKey(rows[i])}
        RECURSIVE Pick(_)
        Pick(i) == IF i > Len(rows) THEN <<>>
                   ELSE (IF i \in keep THEN <<rows[i]>> ELSE <<>>) \o Pick(i + 1)
    IN Pick(1)

\* The columns one pass of clean_data's loop body reads or drops.
CleanNeeds == {"Applicable For", "Applicable At", "Data Item"} \cup DroppedColumns

\* Faulty variant: the three columns are not dropped.
CleanTableKeepColumns(df) ==
    [cols |-> df.cols,
     rows |-> drop_duplicates(
                 [i \in DOMAIN df.rows |->
                     [df.rows[i] EXCEPT !.date = to_datetime(df.rows[i].date)]])]

\* One pass of clean_data's loop body over a table (lines 86-98).
CleanTable(df) ==
    [cols |-> df.cols \ DroppedColumns,
     rows |-> drop_duplicates(
                 [i \in DOMAIN df.rows |->
                     [df.rows[i] EXCEPT !.date = to_datetime(df.rows[i].date)]])]

\* clean_data raises KeyError when a table lacks a column it names.
CleanRaises(data) == \E m \in Metrics : ~(CleanNeeds \subseteq data[m].cols)

clean_data(data) == [m \in Metrics |-> CleanTable(data[m])]

----------------------------------------------------------------------------
\* Splitter

\* Series.str.contains(key) on a Data Item label.
Contains(item, key) == \E i \in DOMAIN item : item[i] = key

\* Faulty variant: only the first metric table is read.
SplitRowsFirstTableOnly(data, key) ==
    SelectSeq(data[MetricOrder[1]].rows, LAMBDA r : Contains(r.item, key))

\* combined_data for one category (lines 117-121): the matching rows of
\* each metric table, in ng_data's order.
SplitRows(data, key) ==
    SelectSeq(data[MetricOrder[1]].rows, LAMBDA r : Contains(r.item, key))
    \o SelectSeq(data[MetricOrder[2]].rows, LAMBDA r : Contains(r.item, key))

PanelColumn == [key \in Categories |-> CHOOSE i \in 1..3 : CategoryOrder[i] = key]

split_data(data) ==
    [key \in Categories |->
        [df |-> [cols |-> data[MetricOrder[1]].cols \cup data[MetricOrder[2]].cols,
                 rows |-> SplitRows(data, key)],
         row |-> 1, col |-> PanelColumn[key],
         capacity |-> <<>>, total |-> <<>>]]

----------------------------------------------------------------------------
\* Chart Builder

\* 10**-9 as a denominator, and the 0.5 Twh the annotation is lifted by.
TwhDen == 1000000000
AnnotationLift == 500000000

Twh(v) == [num |-> v, den |-> TwhDen]

\* Opacities in thousandths.
CapacityOpacity == 75
OpacityStep == 75
FullOpacity == 1000

\* Series.unique(): the distinct values in order of first appearance.
RECURSIVE Unique(_)
Unique(s) ==
    IF s = <<>> THEN <<>>
    ELSE LET init == Unique(SubSeq(s, 1, Len(s) - 1))
             last == s[Len(s)]
         IN IF \E i \in DOMAIN init : init[i] = last THEN init ELSE Append(init, last)

\* The timestamps of S in chronological order.
RECURSIVE SortedDates(_)
SortedDates(S) ==
    IF S = {} THEN <<>>
    ELSE LET first == CHOOSE d \in S : \A e \in S \ {d} : Before(d, e)
         IN <<first>> \o SortedDates(S \ {first})

Column(rows, name) == [i \in DOMAIN rows |-> rows[i][name]]

\* df.groupby(by="Applicable For")["Value"].sum().reset_index()
GroupSum(rows) ==
    LET dates == SortedDates({rows[i].date : i \in DOMAIN rows})
    IN [k \in DOMAIN dates |->
           [date |-> dates[k],
            value |-> SumSeq(Column(SelectSeq(rows, LAMBDA r : r.date = dates[k]), "value"))]]

\* Series.map(self.mapping_dict) on one label.
MapItem(item) == IF item \in DOMAIN mapping_dict THEN mapping_dict[item] ELSE NaN

\* ng_value["df"] for one panel and metric (lines 148-153).
MetricFrame(storage_df, ng_key) ==
    LET sel == SelectSeq(storage_df.rows, LAMBDA r : Contains(r.item, ng_key))
    IN [cols |-> storage_df.cols,
        rows |-> [i \in DOMAIN sel |-> [sel[i] EXCEPT !.item = MapItem(sel[i].item)]]]

\* Faulty variant: the legend is shown for the first facility of every panel.
ShowLegendEveryPanel(ind, key) == ind = 0

\* show_legend (line 162); ind is 0-based.
ShowLegend(ind, key) == (ind = 0) /\ (key = LongRange)

\* Faulty variant: the gradient starts one step down.
OpacityOffByOne(ng_key, ind) ==
    IF ng_key = AvailableCapacity THEN CapacityOpacity
    ELSE FullOpacity - ((ind + 1) * OpacityStep)

\* opacity (lines 163-165); ind is 0-based.
Opacity(ng_key, ind) ==
    IF ng_key = AvailableCapacity THEN CapacityOpacity
    ELSE FullOpacity - (ind * OpacityStep)

\* fig.add_bar for the facility at 1-based position k of the metric frame
\* (lines 156-178).  A NaN facility equals no cell, itself included.  The
\* hover template is kept as its two variable parts, the facility and the
\* metric; legendgroup is the metric's index.
BarTrace(key, value, indices, ng_key, ng_df, k) ==
    LET storage == Unique(Column(ng_df.rows, "item"))[k]
        temp_df == SelectSeq(ng_df.rows, LAMBDA r : r.item = storage /\ storage # NaN)
    IN [type |-> "bar", name |-> ng_key, mode |-> "", hovertemplate |-> <<storage, <<ng_key>>>>,
        x |-> Column(temp_df, "date"),
        y |-> [i \in DOMAIN temp_df |-> Twh(temp_df[i].value)],
        opacity |-> Opacity(ng_key, k - 1),
        legendgroup |-> indices,
        showlegend |-> ShowLegend(k - 1, key),
        row |-> value.row, col |-> value.col]

\* fig.add_scatter of a groupby result (lines 184-195, 200-211).
LineTrace(name, value, sums) ==
    [type |-> "scatter", name |-> name, mode |-> "", hovertemplate |-> <<<<>>, <<name>>>>,
     x |-> Column(sums, "date"),
     y |-> [i \in DOMAIN sums |-> Twh(sums[i].value)],
     opacity |-> FullOpacity, legendgroup |-> -1, showlegend |-> FALSE,
     row |-> value.row, col |-> value.col]

\* The text trace at the last point of total_df (lines 212-226).
AnnotationTrace(value, total_df) ==
    LET last == total_df[Len(total_df)]
    IN [type |-> "scatter", name |-> "Capacity", mode |-> "text", hovertemplate |-> <<<<>>, <<>>>>,
        x |-> <<last.date>>,
        y |-> <<[num |-> last.value + AnnotationLift, den |-> TwhDen]>>,
        opacity |-> FullOpacity, legendgroup |-> -1, showlegend |-> FALSE,
        row |-> value.row, col |-> value.col]

\* The traces of one metric within a panel (lines 147-195): a bar per
\* facility, then the "Total Stock" line for Opening Stock.
MetricTraces(key, value, indices) ==
    LET ng_key == MetricOrder[indices + 1]
        ng_df == MetricFrame(value.df, ng_key)
        n == Len(Unique(Column(ng_df.rows, "item")))
    IN [k \in 1..n |-> BarTrace(key, value, indices, ng_key, ng_df, k)]
       \o (IF ng_key = OpeningStock
           THEN <<LineTrace("Total Stock", value, GroupSum(ng_df.rows))>>
           ELSE <<>>)

\* Faulty variant: the total is taken over the stock rows only.
TotalFrameStockOnly(storage_df) == GroupSum(MetricFrame(storage_df, OpeningStock).rows)

\* total_df (lines 196-198).
TotalFrame(storage_df) == GroupSum(storage_df.rows)

\* The traces of one panel (lines 145-226).
PanelTraces(key, value) ==
    MetricTraces(key, value, 0) \o MetricTraces(key, value, 1)
    \o <<LineTrace("Total Capacity", value, TotalFrame(value.df)),
         AnnotationTrace(value, TotalFrame(value.df))>>

\* total_df["..."].iloc[-1] raises IndexError on a category without rows.
PanelRaises(value) == TotalFrame(value.df) = <<>>

MakeFigRaises(sd) == \E key \in Categories : PanelRaises(sd[key])

\* The 1-based position in CategoryOrder of the last panel make_fig works
\* on: the first one that raises, or the third.
LastPanel(sd) ==
    IF MakeFigRaises(sd)
    THEN CHOOSE i \in 1..3 : /\ PanelRaises(sd[CategoryOrder[i]])
                            /\ \A j \in 1..(i - 1) : ~PanelRaises(sd[CategoryOrder[j]])
    ELSE 3

\* The figure make_fig returns (lines 136-235).
make_fig(sd) ==
    PanelTraces(CategoryOrder[1], sd[CategoryOrder[1]])
    \o PanelTraces(CategoryOrder[2], sd[CategoryOrder[2]])
    \o PanelTraces(CategoryOrder[3], sd[CategoryOrder[3]])

\* self.ng_data once make_fig has worked on its last panel: line 148
\* stores each metric's frame of that panel into ng_value["df"].
NgDataAfterFig(data, sd) ==
    [m \in Metrics |-> MetricFrame(sd[CategoryOrder[LastPanel(sd)]].df, m)]

\* self.storage_data once make_fig has worked on its last panel:
\* value["capacity"] (line 183) and value["total"] (line 199) are set for
\* every panel worked on.
StorageDataAfterFig(sd) ==
    [key \in Categories |->
        IF PanelColumn[key] <= LastPanel(sd)
        THEN [sd[key] EXCEPT
                 !.capacity = GroupSum(MetricFrame(sd[key].df, OpeningStock).rows),
                 !.total = TotalFrame(sd[key].df)]
        ELSE sd[key]]

----------------------------------------------------------------------------
\* Fetcher

\* Rows the Opening Stock response may hold: a repeated (Data Item, day)
\* pair written two ways, two Medium Range facilities, an LNG facility and
\* a facility that is no key of mapping_dict.
OpeningStockRows ==
    {Row(<<OpeningStock, "Rough", LongRange>>, Text("01", "02", "2024"), 4),
     Row(<<OpeningStock, "Rough", LongRange>>, Text("1", "2", "2024"), 7),
     Row(<<OpeningStock, "Aldbrough", MediumRange>>, Text("01", "02", "2024"), 2),
     Row(<<OpeningStock, "Hornsea", MediumRange>>, Text("02", "01", "2024"), 3),
     Row(<<OpeningStock, "Dragon", LNG>>, Text("01", "02", "2024"), 5),
     Row(<<OpeningStock, "Teesside", LongRange>>, Text("01", "02", "2024"), 1)}

\* Rows the Available Capacity response may hold: one facility per
\* category, a repeated pair, a label of a fourth category and a stock
\* label.
AvailableCapacityRows ==
    {Row(<<AvailableCapacity, "Rough", LongRange>>, Text("01", "02", "2024"), 6),
     Row(<<AvailableCapacity, "Aldbrough", MediumRange>>, Text("02", "01", "2024"), 8),
     Row(<<AvailableCapacity, "Dragon", LNG>>, Text("02", "01", "2024"), 9),
     Row(<<AvailableCapacity, "Dragon", LNG>>, Text("2", "1", "2024"), 1),
     Row(<<AvailableCapacity, "Avonmouth", "Short Range Storage">>,
         Text("01", "02", "2024"), 2),
     Row(<<OpeningStock, "South Hook", LNG>>, Text("01", "02", "2024"), 3)}

ResponseRows == [m \in Metrics |->
                    IF m = OpeningStock THEN OpeningStockRows ELSE AvailableCapacityRows]

\* What pd.read_csv makes of a body that is tabular text: the API's CSV,
\* or a table of other columns (an error page read as one column).
Responses(m) ==
    {[cols |-> RawColumns, rows |-> rows] : rows \in SeqsUpTo(ResponseRows[m], MaxRows)}
    \cup {[cols |-> {"message"}, rows |-> <<>>]}

NoGroup == [df |-> NoTable, row |-> 0, col |-> 0, capacity |-> <<>>, total |-> <<>>]

\* The metric the constructor is fetching at pc.
Fetching == [p \in {"get_os", "get_ac"} |->
                IF p = "get_os" THEN MetricOrder[1] ELSE MetricOrder[2]]

AfterFetch == [p \in {"get_os", "get_ac"} |-> IF p = "get_os" THEN "get_ac" ELSE "clean"]

Init ==
    /\ pc = "get_os"
    /\ response = [m \in Metrics |-> NoTable]
    /\ ng_data = [m \in Metrics |-> NoTable]
    /\ storage_data = [key \in Categories |-> NoGroup]
    /\ fig = NoFig
    /\ requests = [m \in Metrics |-> 0]
    /\ error = "none"

\* Faulty variant: the exception is caught and the constructor returns.
RaiseSwallowed(e) ==
    /\ pc' = "done"
    /\ error' = e

\* The exception leaves __init__: nothing catches it (lines 44-46).
Raise(e) ==
    /\ pc' = "aborted"
    /\ error' = e

\* requests.get raises (connection error, timeout=12): line 70.
RequestFails ==
    /\ pc \in DOMAIN Fetching
    /\ requests' = [requests EXCEPT ![Fetching[pc]] = @ + 1]
    /\ Raise("NetworkError")
    /\ UNCHANGED <<response, ng_data, storage_data, fig>>

\* pd.read_csv raises on the body (line 71).
ParseFails ==
    /\ pc \in DOMAIN Fetching
    /\ requests' = [requests EXCEPT ![Fetching[pc]] = @ + 1]
    /\ Raise("ParseError")
    /\ UNCHANGED <<response, ng_data, storage_data, fig>>

\* One pass of get_data's loop: the GET and the parse succeed (lines 69-71).
RequestReturns ==
    /\ pc \in DOMAIN Fetching
    /\ requests' = [requests EXCEPT ![Fetching[pc]] = @ + 1]
    /\ \E df \in Responses(Fetching[pc]) :
          response' = [response EXCEPT ![Fetching[pc]] = df]
    /\ pc' = AfterFetch[pc]
    /\ UNCHANGED <<ng_data, storage_data, fig, error>>

\* self.ng_data = self.clean_data(...) (line 44).
CleanData ==
    /\ pc = "clean"
    /\ ~CleanRaises(response)
    /\ ng_data' = clean_data(response)
    /\ pc' = "split"
    /\ UNCHANGED <<response, storage_data, fig, requests, error>>

CleanDataFails ==
    /\ pc = "clean"
    /\ CleanRaises(response)
    /\ Raise("KeyError")
    /\ UNCHANGED <<response, ng_data, storage_data, fig, requests>>

\* self.storage_data = self.split_data() (line 45).
SplitData ==
    /\ pc = "split"
    /\ storage_data' = split_data(ng_data)
    /\ pc' = "make_fig"
    /\ UNCHANGED <<response, ng_data, fig, requests, error>>

\* self.fig = self.make_fig() (line 46).
MakeFig ==
    /\ pc = "make_fig"
    /\ ~MakeFigRaises(storage_data)
    /\ fig' = make_fig(storage_data)
    /\ ng_data' = NgDataAfterFig(ng_data, storage_data)
    /\ storage_data' = StorageDataAfterFig(storage_data)
    /\ pc' = "done"
    /\ UNCHANGED <<response, requests, error>>

MakeFigFails ==
    /\ pc = "make_fig"
    /\ MakeFigRaises(storage_data)
    /\ ng_data' = NgDataAfterFig(ng_data, storage_data)
    /\ storage_data' = StorageDataAfterFig(storage_data)
    /\ Raise("IndexError")
    /\ UNCHANGED <<response, fig, requests>>

Next ==
    \/ RequestFails
    \/ ParseFails
    \/ RequestReturns
    \/ CleanData
    \/ CleanDataFails
    \/ SplitData
    \/ MakeFig
    \/ MakeFigFails

Spec == Init /\ [][Next]_vars

----------------------------------------------------------------------------
\* clean_data applied to raw tables and then to its own output

InitClean ==
    /\ pc = "raw"
    /\ response \in [Metrics -> UNION {Responses(m) : m \in Metrics}]
    /\ \A m \in Metrics : response[m] \in Responses(m)
    /\ ng_data = response
    /\ storage_data = [key \in Categories |-> NoGroup]
    /\ fig = NoFig
    /\ requests = [m \in Metrics |-> 0]
    /\ error = "none"

\* ng_data = clean_data(ng_data), first on the raw tables, then on the result.
ApplyClean ==
    /\ pc \in {"raw", "cleaned"}
    /\ IF CleanRaises(ng_data)
       THEN /\ pc' = (IF pc = "raw" THEN "clean_failed" ELSE "reclean_failed")
            /\ error' = "KeyError"
            /\ UNCHANGED ng_data
       ELSE /\ pc' = (IF pc = "raw" THEN "cleaned" ELSE "recleaned")
            /\ ng_data' = clean_data(ng_data)
            /\ UNCHANGED error
    /\ UNCHANGED <<response, storage_data, fig, requests>>

NextClean == ApplyClean

SpecClean == InitClean /\ [][NextClean]_vars

----------------------------------------------------------------------------
\* Properties

\* The (Data Item, Applicable For) pair of a raw row, the date read day first.
ParsedKey(r) == <<r.item, to_datetime(r.date)>>

Cleaned == pc \in {"split", "make_fig"}

\* C1: after clean_data no two rows of a metric table share (Data Item,
\* Applicable For), and for every pair of the raw table the cleaned table
\* holds exactly one row: the first raw row with that pair.
C1_CleanedPairsUniqueFirstKept ==
    Cleaned =>
        \A m \in Metrics :
            LET raw == response[m].rows
                out == ng_data[m].rows
            IN /\ \A i, j \in DOMAIN out : i # j => DedupKey(out[i]) # DedupKey(out[j])
               /\ \A k \in DOMAIN out : \E i \in DOMAIN raw : ParsedKey(raw[i]) = DedupKey(out[k])
               /\ \A i \in DOMAIN raw :
                     LET first == CHOOSE a \in DOMAIN raw :
                                     /\ ParsedKey(raw[a]) = ParsedKey(raw[i])
                                     /\ \A b \in 1..(a - 1) : ParsedKey(raw[b]) # ParsedKey(raw[i])
                         held == {k \in DOMAIN out : DedupKey(out[k]) = ParsedKey(raw[i])}
                     IN /\ Cardinality(held) = 1
                        /\ \A k \in held : out[k].value = raw[first].value

\* C1 witness: a cleaned table lost a row whose pair an earlier row, with
\* the date written differently and another value, already had.
C1_Witness ==
    /\ Cleaned
    /\ \E m \in Metrics :
          /\ Len(ng_data[m].rows) < Len(response[m].rows)
          /\ \E i, j \in DOMAIN response[m].rows :
                /\ i < j
                /\ ParsedKey(response[m].rows[i]) = ParsedKey(response[m].rows[j])
                /\ response[m].rows[i].date # response[m].rows[j].date
                /\ response[m].rows[i].value # response[m].rows[j].value

\* The tables the first run of clean_data returned.
CleanedOnce == clean_data(response)

SecondRunOver == pc \in {"recleaned", "reclean_failed"}

\* C2 as claimed: clean_data applied to its own output completes and
\* yields the same tables.
C2_SecondRunCompletesUnchanged ==
    SecondRunOver => (pc = "recleaned" /\ ng_data = CleanedOnce)

\* C2 amended: clean_data applied to its own output raises KeyError on a
\* column the first run dropped and leaves the tables as the first run
\* returned them; the date parse and de-duplication alone, applied to
\* the cleaned rows, remove none.
C2_SecondRunRaisesTablesKept ==
    /\ pc = "cleaned" => CleanRaises(ng_data)
    /\ SecondRunOver =>
          /\ pc = "reclean_failed"
          /\ error = "KeyError"
          /\ ng_data = CleanedOnce
    /\ pc \in {"cleaned", "reclean_failed"} =>
          \A m \in Metrics :
              /\ CleanTable(ng_data[m]).rows = ng_data[m].rows
              /\ ng_data[m].cols \cap DroppedColumns = {}

\* C2 witness: the second run is over on tables whose first run removed a
\* duplicate row.
C2_Witness ==
    /\ SecondRunOver
    /\ \E m \in Metrics : Len(ng_data[m].rows) < Len(response[m].rows)

\* The positions of the rows whose label contains key.
MatchIdx(rows, key) == {i \in DOMAIN rows : Contains(rows[i].item, key)}

Rank(S, i) == Cardinality({j \in S : j <= i})

\* C3: each Storage Group Table holds exactly the rows of the two cleaned
\* metric tables whose Data Item contains the category (Opening Stock rows
\* first, then Available Capacity rows, each once); a row containing no
\* category is in no group.
C3_GroupsAreMatchingRows ==
    pc = "make_fig" =>
        LET os == ng_data[OpeningStock].rows
            ac == ng_data[AvailableCapacity].rows
        IN /\ \A key \in Categories :
                 LET g == storage_data[key].df.rows
                     n == Cardinality(MatchIdx(os, key))
                 IN /\ Len(g) = n + Cardinality(MatchIdx(ac, key))
                    /\ \A i \in MatchIdx(os, key) : g[Rank(MatchIdx(os, key), i)] = os[i]
                    /\ \A i \in MatchIdx(ac, key) : g[n + Rank(MatchIdx(ac, key), i)] = ac[i]
                    /\ \A k \in DOMAIN g : Contains(g[k].item, key)
           /\ \A m \in Metrics : \A i \in DOMAIN ng_data[m].rows :
                 (\A key \in Categories : ~Contains(ng_data[m].rows[i].item, key))
                 => \A key \in Categories : \A k \in DOMAIN storage_data[key].df.rows :
                        storage_data[key].df.rows[k] # ng_data[m].rows[i]

\* C3 witness: a group drew rows from both metric tables while a row of
\* a fourth category was left out.
C3_Witness ==
    /\ pc = "make_fig"
    /\ \E key \in Categories :
          /\ MatchIdx(ng_data[OpeningStock].rows, key) # {}
          /\ MatchIdx(ng_data[AvailableCapacity].rows, key) # {}
    /\ \E m \in Metrics : \E i \in DOMAIN ng_data[m].rows :
          \A key \in Categories : ~Contains(ng_data[m].rows[i].item, key)

RECURSIVE SumOver(_, _)
SumOver(S, f) ==
    IF S = {} THEN 0
    ELSE LET x == CHOOSE x \in S : TRUE IN f[x] + SumOver(S \ {x}, f)

\* The numerator a trace shows at a date (0 when it has no point there).
ValueAt(t, date) ==
    SumOver({i \in DOMAIN t.x : t.x[i] = date}, [i \in DOMAIN t.x |-> t.y[i].num])

TracesOf(col) == {k \in DOMAIN fig : fig[k].col = col}

Bars(col) == {k \in TracesOf(col) : fig[k].type = "bar"}

PanelDates(col) == UNION {{fig[k].x[i] : i \in DOMAIN fig[k].x} : k \in TracesOf(col)}

BarsAt(S, date) == SumOver(S, [k \in S |-> ValueAt(fig[k], date)])

\* C4: in every panel and at every date the "Total Capacity" line equals
\* the sum of all bar series of the panel at that date, both in Twh.
C4_TotalCapacityEqualsBars ==
    pc = "done" =>
        \A col \in 1..3 :
            \A k \in TracesOf(col) :
                (fig[k].name = "Total Capacity" /\ fig[k].mode = "") =>
                    /\ \A i \in DOMAIN fig[k].y : fig[k].y[i].den = TwhDen
                    /\ \A b \in Bars(col) : \A i \in DOMAIN fig[b].y : fig[b].y[i].den = TwhDen
                    /\ \A d \in PanelDates(col) : ValueAt(fig[k], d) = BarsAt(Bars(col), d)

\* C5: a request that errors, a body that does not parse, or a later stage
\* that raises aborts the construction with the error and without a
\* figure; no request is issued twice and a figure exists only when every
\* stage completed.
C5_AbortOnFailure ==
    /\ (error # "none") <=> (pc = "aborted")
    /\ pc = "aborted" => fig = NoFig
    /\ fig # NoFig => (pc = "done" /\ \A m \in Metrics : requests[m] = 1)
    /\ \A m \in Metrics : requests[m] <= 1
    /\ requests[AvailableCapacity] = 1 => requests[OpeningStock] = 1
    /\ pc \in {"split", "make_fig", "done"} => ~CleanRaises(response)
    /\ error \in {"NetworkError", "ParseError"} =>
          \E m \in Metrics : requests[m] = 1 /\ response[m] = NoTable
    /\ pc = "done" => fig = make_fig(storage_data)

\* C5 witness: the second request failed after the first had returned rows.
C5_Witness ==
    /\ pc = "aborted"
    /\ error = "NetworkError"
    /\ requests[AvailableCapacity] = 1
    /\ response[OpeningStock].rows # <<>>
    /\ fig = NoFig

ShownBars(m) == {k \in DOMAIN fig : fig[k].showlegend /\ fig[k].type = "bar" /\ fig[k].name = m}

\* The first bar series of metric m in the first panel, if any.
FirstBars(m) ==
    {k \in Bars(1) : fig[k].name = m /\ \A j \in Bars(1) : fig[j].name = m => k <= j}

\* C6 as claimed: for each metric exactly one bar series shows its legend
\* entry, the first facility's bar of the Long Range panel; every other
\* trace hides it.
C6_ExactlyOneLegendPerMetric ==
    pc = "done" =>
        /\ \A m \in Metrics : Cardinality(ShownBars(m)) = 1 /\ ShownBars(m) = FirstBars(m)
        /\ \A k \in DOMAIN fig : fig[k].showlegend => fig[k].type = "bar"

\* C6 amended: for each metric at most one bar series shows its legend
\* entry: the bar of the metric's first facility in the Long Range panel
\* when that panel has a row of the metric, and none otherwise; every
\* other trace hides it.
C6_LegendOnlyFirstLongRangeBar ==
    pc = "done" =>
        /\ \A m \in Metrics :
              LET rows == storage_data[LongRange].df.rows
                  mine == {i \in DOMAIN rows : Contains(rows[i].item, m)}
              IN /\ Cardinality(ShownBars(m)) <= 1
                 /\ ShownBars(m) = FirstBars(m)
                 /\ (ShownBars(m) # {}) <=> (mine # {})
                 /\ \A k \in ShownBars(m) : \A i \in mine :
                       (\A j \in mine : i <= j) =>
                           fig[k].hovertemplate = <<MapItem(rows[i].item), <<m>>>>
        /\ \A k \in DOMAIN fig : fig[k].showlegend => (fig[k].type = "bar" /\ fig[k].col = 1)

\* C6 witness: a figure whose Long Range panel has stock bars from two
\* facilities and no capacity bar.
C6_Witness ==
    /\ pc = "done"
    /\ Cardinality({k \in Bars(1) : fig[k].name = OpeningStock}) = 2
    /\ ShownBars(OpeningStock) # {}
    /\ ShownBars(AvailableCapacity) = {}
    /\ \E k \in Bars(2) \cup Bars(3) : fig[k].name = AvailableCapacity

\* C7: make_fig leaves the cleaned metric tables of self.ng_data and the
\* rows of the Storage Group Tables as they were.
C7_MakeFigLeavesTables ==
    [][(pc = "make_fig" /\ pc' = "done") =>
          /\ ng_data' = ng_data
          /\ \A key \in Categories : storage_data'[key].df = storage_data[key].df]_vars

\* C8: every panel has exactly one "Total Stock" line, whose value at each
\* date is the sum of the panel's Opening Stock rows at that date and
\* equals the sum of the panel's stock bars at that date.
C8_TotalStockEqualsStockBars ==
    pc = "done" =>
        \A key \in Categories :
            LET col == storage_data[key].col
                lines == {k \in TracesOf(col) : fig[k].name = "Total Stock"}
                rows == storage_data[key].df.rows
                stock == {i \in DOMAIN rows : Contains(rows[i].item, OpeningStock)}
                bars == {k \in Bars(col) : fig[k].name = OpeningStock}
            IN /\ Cardinality(lines) = 1
               /\ \A k \in lines : \A d \in PanelDates(col) :
                     /\ ValueAt(fig[k], d)
                          = SumOver({i \in stock : rows[i].date = d},
                                    [i \in DOMAIN rows |-> rows[i].value])
                     /\ ValueAt(fig[k], d) = BarsAt(bars, d)

\* The most facilities a panel can hold for a metric: the names
\* mapping_dict gives the labels of that category and metric.
Facilities(key, m) ==
    {mapping_dict[l] : l \in {x \in DOMAIN mapping_dict : Contains(x, key) /\ Contains(x, m)}}

\* The 0-based position of bar k among the bars of its metric in its panel.
BarIndex(k) == Cardinality({j \in Bars(fig[k].col) : fig[j].name = fig[k].name /\ j < k})

\* C9: capacity bars have opacity 0.075; the stock bar of the facility at
\* index ind of its panel has opacity 1 - 0.075*ind, which starts at 1 in
\* each panel, strictly decreases and stays in (0, 1] for every facility
\* a panel can draw (its mapped names and one unmapped value).
C9_BarOpacity ==
    /\ pc = "done" =>
          \A k \in DOMAIN fig :
              fig[k].type = "bar" =>
                  /\ fig[k].name = AvailableCapacity => fig[k].opacity = CapacityOpacity
                  /\ fig[k].name = OpeningStock =>
                        /\ fig[k].opacity = FullOpacity - (OpacityStep * BarIndex(k))
                        /\ fig[k].opacity > 0 /\ fig[k].opacity <= FullOpacity
                        /\ BarIndex(k) = 0 => fig[k].opacity = FullOpacity
                        /\ BarIndex(k) <= Cardinality(Facilities(CategoryOrder[fig[k].col],
                                                                 OpeningStock))
                        /\ \A j \in Bars(fig[k].col) :
                              (fig[j].name = OpeningStock /\ j < k) =>
                                  fig[j].opacity > fig[k].opacity
    /\ \A key \in Categories :
          Opacity(OpeningStock, Cardinality(Facilities(key, OpeningStock))) > 0

\* C9 witness: a figure with a second stock bar in a later panel, drawn
\* after a panel that started at full opacity.
C9_Witness ==
    /\ pc = "done"
    /\ \E k \in Bars(2) \cup Bars(3) :
          fig[k].name = OpeningStock /\ BarIndex(k) = 1 /\ fig[k].opacity < FullOpacity
    /\ \E k \in Bars(1) : fig[k].name = OpeningStock /\ fig[k].opacity = FullOpacity

EmptyGroups == {key \in Categories : storage_data[key].df.rows = <<>>}

\* C10: make_fig returns a figure only if every Storage Group Table has a
\* row; a category no label of either metric table contains leaves its
\* table empty, the annotation's last point raises and the construction
\* aborts without a figure.
C10_EmptyCategoryAborts ==
    /\ pc = "make_fig" =>
          \A key \in Categories :
              (key \in EmptyGroups) <=>
                  (\A m \in Metrics : MatchIdx(ng_data[m].rows, key) = {})
    /\ (pc = "done" \/ fig # NoFig) => EmptyGroups = {}
    /\ (pc = "aborted" /\ error = "IndexError") => (EmptyGroups # {} /\ fig = NoFig)
    /\ (pc \in {"done", "aborted"} /\ error \in {"none", "IndexError"} /\ EmptyGroups # {})
          => (pc = "aborted" /\ error = "IndexError" /\ fig = NoFig)

\* C10 witness: the construction aborted on an empty third panel after
\* two panels with rows.
C10_Witness ==
    /\ pc = "aborted"
    /\ error = "IndexError"
    /\ EmptyGroups = {LNG}
    /\ storage_data[LongRange].total # <<>>

====
